---- MODULE Spec2Model ----
(***************************************************************************)
(* Model of wasm-sysroot/endian.h: the 16-bit byte-order conversions       *)
(* le16toh and be16toh for a little-endian host (TS_LITTLE_ENDIAN).        *)
(*                                                                         *)
(* Three specifications share the definitions of the two functions:        *)
(*   Spec       one caller chains conversions on any of the 65,536 inputs; *)
(*   SpecSweep  be16toh is applied to 0, 1, ..., 65535 in turn, a row of   *)
(*              256 inputs a step, and the results are marked in a bitmap; *)
(*   SpecConc   several callers run the functions' bodies interleaved,     *)
(*              each in its own stack frame.                               *)
(* be16toh has two bodies, chosen by the preprocessor; gnuc is the build's *)
(* choice and never changes. Definitions marked "Faulty variant" are not   *)
(* part of the model: each is a wrong version of the definition after it,  *)
(* which the properties at the end must tell apart from the right one.     *)
(***************************************************************************)
EXTENDS Integers, Sequences, FiniteSets

VARIABLES gnuc,                 \* defined(__GNUC__) || defined(__clang__)
          x0, calls,            \* Spec: the input and the calls made on it
          swept, bitmap, dup,   \* SpecSweep: inputs done, results seen, a repeat
          pc, frames, req, out  \* SpecConc: per caller

vars == << gnuc, x0, calls, swept, bitmap, dup, pc, frames, req, out >>

\* uint16_t is 16 bits wide, a byte 8.
UINT16_BITS == 16
BYTE_BITS == 8

\* How many conversions the caller of Spec chains on one value.
MaxCalls == 2
\* How many callers run concurrently in SpecConc.
NumCallers == 2

UInt16 == 0 .. (2^UINT16_BITS - 1)

\* ------------------------------------------------------------ C operators

\* x << k and x >> k on int (x is promoted from uint16_t: no overflow for k = 8).
\* Faulty variant: the left shift one bit short.
ShlOffByOne(x, k) == x * 2^(k - 1)
Shl(x, k) == x * 2^k

\* Faulty variant: the right shift four bits short.
ShrBy4(x, k) == x \div 2^(k - 4)
Shr(x, k) == x \div 2^k

\* a | b on non-negative ints, bit by bit.
RECURSIVE BitOr(_, _)
BitOr(a, b) ==
    IF a = 0 THEN b
    ELSE IF b = 0 THEN a
    ELSE (IF a % 2 = 1 \/ b % 2 = 1 THEN 1 ELSE 0) + 2 * BitOr(a \div 2, b \div 2)

\* The conversion of the int result to the uint16_t return type: modulo 2^16.
\* Faulty variant: the result kept as int, not reduced to 16 bits.
NoConversion(v) == v
ToUint16(v) == v % 2^UINT16_BITS

\* The bytes of a uint16_t, least significant first, and the value of two bytes.
\* Faulty variant: the bytes taken most significant first.
BytesOf_high_first(x) == << (x \div 2^BYTE_BITS) % 2^BYTE_BITS, x % 2^BYTE_BITS >>
BytesOf(x) == << x % 2^BYTE_BITS, (x \div 2^BYTE_BITS) % 2^BYTE_BITS >>
FromBytes(b) == b[1] + b[2] * 2^BYTE_BITS

\* __builtin_bswap16(x): x with the order of its bytes reversed.
\* Faulty variant: the low byte copied to both bytes.
bswap16_keeps_low(x) == FromBytes(<< BytesOf(x)[1], BytesOf(x)[1] >>)
builtin_bswap16(x) == FromBytes(<< BytesOf(x)[2], BytesOf(x)[1] >>)

\* The #else body of be16toh: (x << 8) | (x >> 8), returned as uint16_t.
\* Faulty variant: the x >> 8 operand left out.
portable_one_shift(x) == ToUint16(Shl(x, BYTE_BITS))
be16toh_portable(x) == ToUint16(BitOr(Shl(x, BYTE_BITS), Shr(x, BYTE_BITS)))

\* ------------------------------------------------------------ the header

\* Faulty variant: le16toh as written for a big-endian host.
le16toh_swaps(x) == builtin_bswap16(x)
\* Faulty variant: le16toh returning a single byte.
le16toh_low_byte(x) == x % 2^BYTE_BITS
le16toh(x) == x

\* Faulty variant: be16toh as written for a big-endian host.
be16toh_noop(x) == x
be16toh(x) == IF gnuc THEN builtin_bswap16(x) ELSE be16toh_portable(x)

Apply(f, x) == IF f = "le16toh" THEN le16toh(x) ELSE be16toh(x)

\* ------------------------------------------------------------ Spec

\* The parts of the state a specification does not use.
NoCaller == x0 = 0 /\ calls = << >>
NoSweep == swept = 0 /\ bitmap = << >> /\ dup = FALSE
NoConc == pc = << >> /\ frames = << >> /\ req = << >> /\ out = << >>

\* The value the caller holds: its input, or the result of its last call.
Cur == IF calls = << >> THEN x0 ELSE calls[Len(calls)].ret

Init ==
    /\ gnuc \in BOOLEAN
    /\ x0 \in UInt16
    /\ calls = << >>
    /\ NoSweep
    /\ NoConc

CallLe ==
    /\ Len(calls) < MaxCalls
    /\ calls' = Append(calls, [fn |-> "le16toh", arg |-> Cur, ret |-> le16toh(Cur)])
    /\ UNCHANGED << gnuc, x0, swept, bitmap, dup, pc, frames, req, out >>

CallBe ==
    /\ Len(calls) < MaxCalls
    /\ calls' = Append(calls, [fn |-> "be16toh", arg |-> Cur, ret |-> be16toh(Cur)])
    /\ UNCHANGED << gnuc, x0, swept, bitmap, dup, pc, frames, req, out >>

Next == CallLe \/ CallBe

Spec == Init /\ [][Next]_vars

\* ------------------------------------------------------------ SpecSweep

\* The bitmap holds one bit per uint16_t value, packed in 16-bit words.
NumWords == 2^UINT16_BITS \div UINT16_BITS
WordOf(v) == v \div UINT16_BITS + 1
BitOf(v) == v % UINT16_BITS
MarkedIn(bm, v) == (bm[WordOf(v)] \div 2^BitOf(v)) % 2 = 1
Marked(v) == MarkedIn(bitmap, v)

\* The inputs are swept a row at a time: the 256 values with one high byte.
RowLen == 2^BYTE_BITS

InitSweep ==
    /\ gnuc \in BOOLEAN
    /\ NoCaller
    /\ swept = 0
    /\ bitmap = [w \in 1 .. NumWords |-> 0]
    /\ dup = FALSE
    /\ NoConc

\* Mark result v; a result marked before is a repeat.
MarkOne(st, v) ==
    [dup |-> st.dup \/ MarkedIn(st.bitmap, v),
     bitmap |-> IF MarkedIn(st.bitmap, v) THEN st.bitmap
                ELSE [st.bitmap EXCEPT ![WordOf(v)] = @ + 2^BitOf(v)]]

\* Convert the n >= 1 inputs from x on, in order, and mark their results,
\* stopping at the first repeat (the first half, then the second).
RECURSIVE ConvertFrom(_, _, _)
ConvertFrom(st, x, n) ==
    IF n = 1 THEN MarkOne(st, be16toh(x))
    ELSE LET h == n \div 2
             left == ConvertFrom(st, x, h)
         IN IF left.dup THEN left ELSE ConvertFrom(left, x + h, n - h)

\* Convert the next row of inputs; the sweep ends at a repeat.
Sweep ==
    /\ swept < 2^UINT16_BITS
    /\ ~dup
    /\ LET st == ConvertFrom([dup |-> dup, bitmap |-> bitmap], swept, RowLen) IN
        /\ dup' = st.dup
        /\ bitmap' = st.bitmap
    /\ swept' = swept + RowLen
    /\ UNCHANGED << gnuc, x0, calls, pc, frames, req, out >>

NextSweep == Sweep

SpecSweep == InitSweep /\ [][NextSweep]_vars

\* ------------------------------------------------------------ SpecConc

Callers == 1 .. NumCallers

\* The arguments the concurrent callers pass.
Inputs == { 0, 255, 4660, 65280, 65535 }

\* A call's parameter and temporaries are automatic: one frame per call.
\* Faulty variant: the parameter and temporaries in static storage.
SharedFrame(c) == 1
FrameOf(c) == c

NoRequest == [fn |-> "none", arg |-> 0]
\* have: the operands of | evaluated so far.
EmptyFrame == [x |-> 0, t1 |-> 0, t2 |-> 0, have |-> {}]

InitConc ==
    /\ gnuc \in BOOLEAN
    /\ NoCaller
    /\ NoSweep
    /\ pc = [c \in Callers |-> "idle"]
    /\ frames = [c \in Callers |-> EmptyFrame]
    /\ req = [c \in Callers |-> NoRequest]
    /\ out = [c \in Callers |-> 0]

ConcRest == << gnuc, x0, calls, swept, bitmap, dup >>

\* Caller c calls f(a): the argument is copied into the call's parameter x.
Call(c) ==
    /\ pc[c] = "idle"
    /\ \E f \in { "le16toh", "be16toh" }, a \in Inputs :
        /\ req' = [req EXCEPT ![c] = [fn |-> f, arg |-> a]]
        /\ frames' = [frames EXCEPT ![FrameOf(c)] = [EmptyFrame EXCEPT !.x = a]]
        /\ pc' = [pc EXCEPT ![c] = f]
    /\ UNCHANGED << out, ConcRest >>

\* le16toh: return x.
RetLe(c) ==
    /\ pc[c] = "le16toh"
    /\ out' = [out EXCEPT ![c] = frames[FrameOf(c)].x]
    /\ pc' = [pc EXCEPT ![c] = "done"]
    /\ frames' = [frames EXCEPT ![FrameOf(c)] = EmptyFrame]
    /\ UNCHANGED << req, ConcRest >>

\* be16toh, #if body: return __builtin_bswap16(x).
RetBswap(c) ==
    /\ pc[c] = "be16toh"
    /\ gnuc
    /\ out' = [out EXCEPT ![c] = builtin_bswap16(frames[FrameOf(c)].x)]
    /\ pc' = [pc EXCEPT ![c] = "done"]
    /\ frames' = [frames EXCEPT ![FrameOf(c)] = EmptyFrame]
    /\ UNCHANGED << req, ConcRest >>

\* be16toh, #else body: the operands x << 8 and x >> 8, in either order ...
EvalShl(c) ==
    /\ pc[c] = "be16toh"
    /\ ~gnuc
    /\ "shl" \notin frames[FrameOf(c)].have
    /\ frames' = [frames EXCEPT ![FrameOf(c)].t1 = Shl(frames[FrameOf(c)].x, BYTE_BITS),
                                ![FrameOf(c)].have = @ \cup { "shl" }]
    /\ UNCHANGED << pc, req, out, ConcRest >>

EvalShr(c) ==
    /\ pc[c] = "be16toh"
    /\ ~gnuc
    /\ "shr" \notin frames[FrameOf(c)].have
    /\ frames' = [frames EXCEPT ![FrameOf(c)].t2 = Shr(frames[FrameOf(c)].x, BYTE_BITS),
                                ![FrameOf(c)].have = @ \cup { "shr" }]
    /\ UNCHANGED << pc, req, out, ConcRest >>

\* ... then their | , converted to uint16_t and returned.
RetOr(c) ==
    /\ pc[c] = "be16toh"
    /\ ~gnuc
    /\ frames[FrameOf(c)].have = { "shl", "shr" }
    /\ out' = [out EXCEPT ![c] = ToUint16(BitOr(frames[FrameOf(c)].t1, frames[FrameOf(c)].t2))]
    /\ pc' = [pc EXCEPT ![c] = "done"]
    /\ frames' = [frames EXCEPT ![FrameOf(c)] = EmptyFrame]
    /\ UNCHANGED << req, ConcRest >>

\* Each return above ends the call's frame. The caller takes the result and
\* is free to call again.
Take(c) ==
    /\ pc[c] = "done"
    /\ pc' = [pc EXCEPT ![c] = "idle"]
    /\ req' = [req EXCEPT ![c] = NoRequest]
    /\ out' = [out EXCEPT ![c] = 0]
    /\ UNCHANGED << frames, ConcRest >>

\* A step of the body caller c is running.
Body(c) == RetLe(c) \/ RetBswap(c) \/ EvalShl(c) \/ EvalShr(c) \/ RetOr(c)

NextConc ==
    \E c \in Callers :
        \/ Call(c)
        \/ RetLe(c)
        \/ RetBswap(c)
        \/ EvalShl(c)
        \/ EvalShr(c)
        \/ RetOr(c)
        \/ Take(c)

SpecConc == InitConc /\ [][NextConc]_vars

\* ------------------------------------------------------------ properties

Hi(x) == x \div 2^BYTE_BITS
Lo(x) == x % 2^BYTE_BITS

CallIdx == 1 .. Len(calls)
IsBe(i) == calls[i].fn = "be16toh"
IsLe(i) == calls[i].fn = "le16toh"

\* C1: every be16toh call on x = (hi << 8) | lo returns (lo << 8) | hi.
C1_ByteSwap ==
    \A i \in CallIdx :
        IsBe(i) => calls[i].ret = Lo(calls[i].arg) * 2^BYTE_BITS + Hi(calls[i].arg)

\* A be16toh call on a value whose bytes differ has returned, in the #else build.
C1_Witness ==
    /\ ~gnuc
    /\ Len(calls) = 1 /\ IsBe(1)
    /\ calls[1].arg = 4660 /\ calls[1].ret = 13330

\* C2: every le16toh call returns its argument unchanged.
C2_Identity ==
    \A i \in CallIdx : IsLe(i) => calls[i].ret = calls[i].arg

\* le16toh has returned for an input whose bytes differ.
C2_Witness ==
    /\ Len(calls) = 1 /\ IsLe(1)
    /\ x0 = 65280 /\ calls[1].ret = 65280

\* C3: two be16toh calls in a row give back the first call's argument.
C3_Involution ==
    \A i \in CallIdx :
        (i > 1 /\ IsBe(i - 1) /\ IsBe(i) /\ calls[i].arg = calls[i - 1].ret)
            => calls[i].ret = calls[i - 1].arg

\* be16toh was applied twice to a value it does not fix.
C3_Witness ==
    /\ Len(calls) = 2 /\ IsBe(1) /\ IsBe(2)
    /\ x0 = 255 /\ calls[1].ret = 65280 /\ calls[2].ret = 255

\* C4: whichever body the build compiled, the result of a be16toh call is
\* what the primitive and what the shift-and-or body each compute.
C4_BodiesAgree ==
    \A i \in CallIdx :
        IsBe(i) => /\ calls[i].ret = builtin_bswap16(calls[i].arg)
                   /\ calls[i].ret = be16toh_portable(calls[i].arg)

\* The #else build has converted a value whose x << 8 does not fit 16 bits.
C4_Witness ==
    /\ ~gnuc
    /\ Len(calls) = 1 /\ IsBe(1)
    /\ Shl(calls[1].arg, BYTE_BITS) >= 2^UINT16_BITS
    /\ Hi(calls[1].arg) # Lo(calls[1].arg)

\* C5 as written: le16toh(be16toh(x)) = be16toh(le16toh(x)) exactly when the
\* two bytes of x are equal.
C5_Original ==
    (Len(calls) = 2 /\ IsBe(1) /\ IsLe(2))
        => ((calls[2].ret = be16toh(le16toh(x0))) <=> (Hi(x0) = Lo(x0)))

\* C5 amended: le16toh(be16toh(x)) = be16toh(le16toh(x)) for every x.
C5_Commute ==
    (Len(calls) = 2 /\ IsBe(1) /\ IsLe(2))
        => calls[2].ret = be16toh(le16toh(x0))

\* le16toh was applied to be16toh's result for a value whose bytes differ.
C5_Witness ==
    /\ Len(calls) = 2 /\ IsBe(1) /\ IsLe(2)
    /\ Hi(x0) # Lo(x0)
    /\ calls[2].ret = Lo(x0) * 2^BYTE_BITS + Hi(x0)

\* C6: a be16toh call returns its argument exactly when the argument's two
\* bytes are equal.
C6_FixedPoints ==
    \A i \in CallIdx :
        IsBe(i) => ((calls[i].ret = calls[i].arg) <=> (Hi(calls[i].arg) = Lo(calls[i].arg)))

\* be16toh has returned a nonzero value with equal bytes unchanged.
C6_Witness ==
    /\ Len(calls) = 1 /\ IsBe(1)
    /\ x0 = 16705 /\ calls[1].ret = 16705

\* C7: every call of either function returns a value in 0 .. 65535.
C7_Total ==
    \A i \in CallIdx : calls[i].ret \in UInt16

\* The #else build has returned for an argument whose x << 8 exceeds 16 bits.
C7_Witness ==
    /\ ~gnuc
    /\ Len(calls) = 1 /\ IsBe(1)
    /\ calls[1].arg = 65535
    /\ Shl(calls[1].arg, BYTE_BITS) > 2^UINT16_BITS - 1
    /\ calls[1].ret = 65535

\* C8: under any interleaving a finished call holds the value the function
\* gives for its argument alone, and a running call can always take its
\* next step, whatever the other callers are doing.
C8_Independent ==
    \A c \in Callers :
        /\ pc[c] = "done" => out[c] = Apply(req[c].fn, req[c].arg)
        /\ pc[c] \in { "le16toh", "be16toh" } => ENABLED Body(c)

\* Two be16toh calls on different arguments overlapped and the first finished.
C8_Witness ==
    /\ ~gnuc
    /\ pc[1] = "done" /\ req[1] = [fn |-> "be16toh", arg |-> 4660] /\ out[1] = 13330
    /\ pc[2] = "be16toh" /\ req[2].arg = 65280
    /\ frames[FrameOf(2)].have = { "shl" }

\* C9: be16toh maps 0x0000 to 0x0000, 0xFFFF to 0xFFFF, 0x1234 to 0x3412,
\* 0x00FF to 0xFF00 and 0xFF00 to 0x00FF.
C9_Boundary ==
    \A i \in CallIdx :
        IsBe(i) =>
            /\ calls[i].arg = 0 => calls[i].ret = 0
            /\ calls[i].arg = 65535 => calls[i].ret = 65535
            /\ calls[i].arg = 4660 => calls[i].ret = 13330
            /\ calls[i].arg = 255 => calls[i].ret = 65280
            /\ calls[i].arg = 65280 => calls[i].ret = 255

\* be16toh has converted 0x00FF.
C9_Witness ==
    /\ Len(calls) = 1 /\ IsBe(1)
    /\ calls[1].arg = 255 /\ calls[1].ret = 65280

\* C10: over the inputs 0 .. 65535 no result of be16toh occurs twice, and
\* once all are converted every value of 0 .. 65535 has occurred as a result.
C10_Bijection ==
    /\ ~dup
    /\ swept = 2^UINT16_BITS => \A v \in UInt16 : Marked(v)

\* All 65,536 inputs are converted.
C10_Witness ==
    /\ swept = 2^UINT16_BITS
    /\ ~dup
    /\ Marked(0) /\ Marked(2^UINT16_BITS - 1)
====
